---- MODULE Spec2Model ----
(***************************************************************************)
(* Monolith CLI: the module resolution and installation engine.            *)
(*                                                                         *)
(*   RegistryManager.checkDependencies   (utils/registry.ts)               *)
(*   ModuleInstaller.install and helpers (cli/src/utils/installer.ts)      *)
(*                                                                         *)
(* SpecResolve runs checkDependencies step by step over every small        *)
(* registry; SpecInstall runs install on small projects; SpecEnv runs      *)
(* configureEnvVariables and SpecTargets runs selectInstallTargets over    *)
(* every small input.                                                      *)
(***************************************************************************)
EXTENDS Integers, Sequences, FiniteSets, TLC

VARIABLES
    modules,      \* registry.modules: module name -> descriptor
    moduleName,   \* the argument of checkDependencies / install
    pc,           \* control location of the running call
    satisfied,    \* checkDependencies: const satisfied: string[]
    missing,      \* checkDependencies: const missing: string[]
    circular,     \* checkDependencies: const circular: string[]
    visited,      \* checkDependencies: const visited = new Set<string>()
    stack,        \* activations of `for (const req of requires)` loops
    expansions,   \* history: how often each name's requires list was read
    calls,        \* history: number of calls of the inner function check
    configFile,   \* monolith.config.json in the project root
    cwdRel,       \* relative(projectRoot, currentWorkingDir)
    fs,           \* the project's files: path -> content
    skipDeps,     \* install: the skipDeps argument
    projectConfig,    \* ModuleInstaller.projectConfig
    installTargets,   \* install: const installTargets
    ti,           \* install: position of `for (const target of installTargets)`
    fi,           \* install: position of the file loop (let i)
    results,      \* install: const results: FileOperationResult[]
    errors,       \* install: const errors: string[]
    installedDeps,    \* install: const installedDeps: string[]
    autoRegistrations,    \* install: const autoRegistrations
    di,           \* installDependencies: position of `for (const dep of ...)`
    hi,           \* executeHooks: position of `for (const hook of hooks)`
    ret,          \* the value install returned last
    effects,      \* history: what the running call did to the outside
    installs,     \* history: number of install calls started
    options,      \* RegistryManager.options
    cachedRegistry,   \* RegistryManager.cachedRegistry
    registryFiles,    \* the registry.json files at possiblePaths
    registryResult    \* how the last getRegistry call ended

resolveVars == <<satisfied, missing, circular, visited, stack, expansions, calls>>

installVars == <<configFile, cwdRel, fs, skipDeps, projectConfig, installTargets,
                 ti, fi, results, errors, installedDeps, autoRegistrations,
                 di, hi, ret, effects, installs>>

registryVars == <<options, cachedRegistry, registryFiles, registryResult>>

vars == <<modules, moduleName, pc, resolveVars, installVars, registryVars>>

----------------------------------------------------------------------------
(* Bounds and name universe                                                *)

\* Total number of requires entries in a registry.
MaxEdges == 3

\* Names that may be registry keys.
ModuleNames == {"a", "b", "c"}

\* A property every object inherits from Object.prototype; registry.modules
\* is a plain object produced by JSON.parse, so modules["toString"] is a
\* (truthy) function although "toString" is no key of the registry.
ObjectPrototypeNames == {"toString"}

Names == ModuleNames \cup ObjectPrototypeNames

Range(s) == {s[i] : i \in DOMAIN s}

SeqsUpTo(S, n) == UNION {[1..k -> S] : k \in 0..n}

\* A path or any other string the code takes apart: a sequence of tokens.
JoinPath(base, rel) == IF base = <<>> THEN rel ELSE base \o <<"/">> \o rel

\* s.startsWith(prefix)
StartsWith(s, prefix) ==
    Len(prefix) <= Len(s) /\ SubSeq(s, 1, Len(prefix)) = prefix

\* s.includes(pattern)
Includes(s, pattern) ==
    \E k \in 0..(Len(s) - Len(pattern)) :
        SubSeq(s, k + 1, k + Len(pattern)) = pattern

\* ModuleFile.autoRegister, absent or given
NoAutoRegister ==
    [present |-> FALSE, type |-> "", injectIn |-> <<>>, importAs |-> "",
     marker |-> ""]

AutoRegister(type, injectIn, importAs, marker) ==
    [present |-> TRUE, type |-> type, injectIn |-> injectIn,
     importAs |-> importAs, marker |-> marker]

\* ModuleFile
ModuleFile(path, target, autoRegister) ==
    [path |-> path, target |-> target, autoRegister |-> autoRegister]

EntryFile == <<"src", "/", "index", ".ts">>

\* ModuleConfig.files: a flat array (modules a and c), or a mapping by
\* target type (module b), the two shapes filterFilesByTarget accepts.
FilesOf(name) ==
    IF name = "c"
    THEN [isArray |-> TRUE,
          array |-> << ModuleFile("templates/c/c1.ts", <<"src", "/", "c1", ".ts">>,
                                  NoAutoRegister) >>,
          backend |-> <<>>, frontend |-> <<>>]
    ELSE IF name = "a"
    THEN [isArray |-> TRUE,
          array |-> << ModuleFile("templates/a/a1.ts", <<"src", "/", "a1", ".ts">>,
                                  AutoRegister("plugin", EntryFile, "a1", "@plugins")),
                       ModuleFile("templates/a/a2.ts", <<"src", "/", "a2", ".ts">>,
                                  AutoRegister("routes", EntryFile, "a2", "@routes")) >>,
          backend |-> <<>>, frontend |-> <<>>]
    ELSE [isArray |-> FALSE,
          array |-> <<>>,
          backend |-> << ModuleFile("templates/b/b1.ts", <<"src", "/", "b1", ".ts">>,
                                    NoAutoRegister) >>,
          frontend |-> << ModuleFile("templates/b/b2.tsx", <<"src", "/", "b2", ".tsx">>,
                                     NoAutoRegister) >>]

\* ModuleConfig.dependencies
DependenciesOf(name) ==
    IF name = "a" THEN <<[name |-> "d1", version |-> "^1"],
                         [name |-> "d2", version |-> "^2"]>>
    ELSE <<>>

\* ModuleConfig.envVariables
EnvVariablesOf(name) ==
    IF name = "a" THEN <<[name |-> <<"KEY">>, default |-> <<"v">>]>> ELSE <<>>

\* HookAction
Hook(type, hasMessage, message, variables) ==
    [type |-> type, hasMessage |-> hasMessage, message |-> message,
     variables |-> variables, hasCommand |-> FALSE, command |-> ""]

\* A HookAction of type command that gives its command in the field `command`
CommandHook(command) ==
    [Hook("command", FALSE, "", <<>>) EXCEPT !.hasCommand = TRUE,
                                             !.command = command]

\* ModuleConfig.hooks.afterInstall
HooksOf(name) ==
    IF name = "a"
    THEN <<Hook("command", TRUE, "migrate", <<>>), CommandHook("seed"),
           Hook("log", TRUE, "installed", <<>>)>>
    ELSE <<Hook("env", FALSE, "", <<"KEY">>), Hook("confirm", TRUE, "sure?", <<>>)>>

\* ModuleConfig; targets is optional
Descriptor(name, requires) ==
    [name |-> name, version |-> "1.0.0", requires |-> requires,
     files |-> FilesOf(name), dependencies |-> DependenciesOf(name),
     envVariables |-> EnvVariablesOf(name), hooks |-> HooksOf(name),
     hasTargets |-> FALSE, targets |-> <<>>]

\* The requires lists a registry with keys ks may give module k when
\* `budget` entries are left.
RequiresLists(k, ks, budget) ==
    IF k \in ks THEN SeqsUpTo(Names, budget) ELSE {<<>>}

\* The registry with keys ks and the given requires lists.
Registry(ks, ra, rb, rc) ==
    [k \in ks |-> Descriptor(k, CASE k = "a" -> ra [] k = "b" -> rb [] OTHER -> rc)]

----------------------------------------------------------------------------
(* RegistryManager.checkDependencies                                       *)

\* modules[name] used as a condition: an own key of the registry, or a
\* property found on the prototype chain.
HasModule(name) == name \in DOMAIN modules \/ name \in ObjectPrototypeNames

\* modules[name].requires || []
RequiresOf(name) ==
    IF name \in DOMAIN modules THEN modules[name].requires ELSE <<>>

\* Mutant of PathIncludes: a name seen anywhere before counts as a cycle.
PathIncludesOrVisited(path, name) ==
    (\E i \in DOMAIN path : path[i] = name) \/ name \in visited

\* Mutant of PathIncludes: only the immediate caller is compared.
PathIncludesParentOnly(path, name) ==
    path # <<>> /\ path[Len(path)] = name

\* Mutant of PathIncludes: the visited set is consulted first, so a name
\* already visited is never compared with the path.
PathIncludesUnvisited(path, name) ==
    name \notin visited /\ \E i \in DOMAIN path : path[i] = name

\* path.includes(name)
PathIncludes(path, name) == \E i \in DOMAIN path : path[i] = name

\* Mutant of VisitedHas: the visited set is never consulted.
VisitedHasNever(name) == FALSE

\* visited.has(name)
VisitedHas(name) == name \in visited

\* [...path, name]
ChildPath(path, name) == Append(path, name)

Top == stack[Len(stack)]

\* The loop of the top activation has a next element.
HasNext == /\ pc = "check"
           /\ stack # <<>>
           /\ Top.i <= Len(RequiresOf(Top.name))

Req == RequiresOf(Top.name)[Top.i]

Advance == [stack EXCEPT ![Len(stack)].i = @ + 1]

\* lines 311-347: the body of checkDependencies up to its first call of check
StartCheck ==
    /\ pc = "start"
    /\ calls' = 0
    /\ visited' = {}
    /\ missing' = <<>>
    /\ circular' = <<>>
    /\ IF HasModule(moduleName)
       THEN /\ satisfied' = <<moduleName>>
            /\ stack' = <<[name |-> moduleName, path |-> <<moduleName>>, i |-> 1]>>
            /\ expansions' = [n \in Names |-> IF n = moduleName THEN 1 ELSE 0]
       ELSE /\ satisfied' = <<>>
            /\ stack' = <<>>
            /\ expansions' = [n \in Names |-> 0]
    /\ pc' = "check"
    /\ UNCHANGED installVars
    /\ UNCHANGED <<registryVars, modules, moduleName>>

\* lines 318-321: the name is on the current path
CheckCircular ==
    /\ HasNext
    /\ PathIncludes(Top.path, Req)
    /\ circular' = Append(circular, Req)
    /\ stack' = Advance
    /\ calls' = calls + 1
    /\ UNCHANGED installVars
    /\ UNCHANGED <<registryVars, modules, moduleName, pc, satisfied, missing, visited, expansions>>

\* lines 323-325: the name was handled before
CheckVisited ==
    /\ HasNext
    /\ ~PathIncludes(Top.path, Req)
    /\ VisitedHas(Req)
    /\ stack' = Advance
    /\ calls' = calls + 1
    /\ UNCHANGED installVars
    /\ UNCHANGED <<registryVars, modules, moduleName, pc, satisfied, missing, circular,
                   visited, expansions>>

\* lines 327-334: a module of the registry, entered for the first time
CheckSatisfied ==
    /\ HasNext
    /\ ~PathIncludes(Top.path, Req)
    /\ ~VisitedHas(Req)
    /\ HasModule(Req)
    /\ visited' = visited \cup {Req}
    /\ satisfied' = Append(satisfied, Req)
    /\ stack' = Append(Advance,
                       [name |-> Req, path |-> ChildPath(Top.path, Req), i |-> 1])
    /\ expansions' = [expansions EXCEPT ![Req] = @ + 1]
    /\ calls' = calls + 1
    /\ UNCHANGED installVars
    /\ UNCHANGED <<registryVars, modules, moduleName, pc, missing, circular>>

\* lines 327, 335-337: a name the registry does not have
CheckMissing ==
    /\ HasNext
    /\ ~PathIncludes(Top.path, Req)
    /\ ~VisitedHas(Req)
    /\ ~HasModule(Req)
    /\ visited' = visited \cup {Req}
    /\ missing' = Append(missing, Req)
    /\ stack' = Advance
    /\ calls' = calls + 1
    /\ UNCHANGED installVars
    /\ UNCHANGED <<registryVars, modules, moduleName, pc, satisfied, circular, expansions>>

\* the for loop of one activation is exhausted: check returns to its caller
CheckReturn ==
    /\ pc = "check"
    /\ stack # <<>>
    /\ Top.i > Len(RequiresOf(Top.name))
    /\ stack' = SubSeq(stack, 1, Len(stack) - 1)
    /\ UNCHANGED installVars
    /\ UNCHANGED <<registryVars, modules, moduleName, pc, satisfied, missing, circular,
                   visited, expansions, calls>>

\* line 349: return { satisfied, missing, circular }
ReturnCheck ==
    /\ pc = "check"
    /\ stack = <<>>
    /\ pc' = "done"
    /\ UNCHANGED installVars
    /\ UNCHANGED <<registryVars, modules, moduleName, satisfied, missing, circular, visited,
                   stack, expansions, calls>>

\* FileOperationResult
FileResult(path, action, error) == [path |-> path, action |-> action, error |-> error]

\* An error message: what it reports and about what.
Message(kind, detail) == [kind |-> kind, detail |-> detail]

NoMessage == Message("", <<>>)

\* ProjectConfig as getProjectConfig hands it on; present = FALSE is null.
NullConfig == [present |-> FALSE, hasApps |-> FALSE, apps |-> <<>>, modules |-> <<>>]

\* monolith.config.json: absent, unreadable (no valid JSON) or a document.
NoConfigFile == [state |-> "absent", hasApps |-> FALSE, apps |-> <<>>, modules |-> <<>>]

BrokenConfigFile ==
    [state |-> "unreadable", hasApps |-> FALSE, apps |-> <<>>, modules |-> <<>>]

ConfigDocument(hasApps, apps, installedModules) ==
    [state |-> "ok", hasApps |-> hasApps, apps |-> apps, modules |-> installedModules]

\* The value install returns; returned = FALSE before the first return.
NoReturn ==
    [returned |-> FALSE, success |-> FALSE, installedFiles |-> <<>>,
     installedDeps |-> <<>>, errors |-> <<>>]

\* RegistryManager.cachedRegistry: null, or a registry (by its modules).
NoRegistry == [isNull |-> TRUE, modules |-> <<>>]

LoadedRegistry(registryModules) == [isNull |-> FALSE, modules |-> registryModules]

\* A registry.json file: absent (readFile throws), holding text that is not
\* JSON (JSON.parse throws), or holding JSON: a registry, or the text null.
AbsentFile == [state |-> "absent", registry |-> NoRegistry]

InvalidFile == [state |-> "invalid", registry |-> NoRegistry]

JsonFile(registry) == [state |-> "json", registry |-> registry]

\* How a getRegistry call ended: not at all yet, by returning a registry, or
\* by throwing.
NoRegistryResult == [state |-> "none", registry |-> NoRegistry]

RegistryReturned(registry) == [state |-> "returned", registry |-> registry]

RegistryThrown == [state |-> "thrown", registry |-> NoRegistry]

\* A RegistryManager whose registry (with the given modules) has been loaded
\* from the file beside the tool: what install and checkDependencies run on.
RegistryLoaded ==
    /\ options = [local |-> TRUE]
    /\ registryFiles = <<AbsentFile, JsonFile(LoadedRegistry(modules))>>
    /\ cachedRegistry = LoadedRegistry(modules)
    /\ registryResult = RegistryReturned(cachedRegistry)

\* A ModuleInstaller right after its constructor, no install running.
InstallerIdle ==
    /\ skipDeps = FALSE
    /\ projectConfig = NullConfig
    /\ installTargets = <<>>
    /\ ti = 1
    /\ fi = 1
    /\ results = <<>>
    /\ errors = <<>>
    /\ installedDeps = <<>>
    /\ autoRegistrations = <<>>
    /\ di = 1
    /\ hi = 1
    /\ ret = NoReturn
    /\ effects = <<>>
    /\ installs = 0

InitResolve ==
    /\ \E ks \in SUBSET ModuleNames :
       \E ra \in RequiresLists("a", ks, MaxEdges) :
       \E rb \in RequiresLists("b", ks, MaxEdges - Len(ra)) :
       \E rc \in RequiresLists("c", ks, MaxEdges - Len(ra) - Len(rb)) :
           modules = Registry(ks, ra, rb, rc)
    /\ moduleName \in Names
    /\ pc = "start"
    /\ satisfied = <<>>
    /\ missing = <<>>
    /\ circular = <<>>
    /\ visited = {}
    /\ stack = <<>>
    /\ expansions = [n \in Names |-> 0]
    /\ calls = 0
    /\ InstallerIdle
    /\ configFile = NoConfigFile
    /\ cwdRel = <<>>
    /\ fs = <<>>
    /\ RegistryLoaded

NextResolve ==
    \/ StartCheck
    \/ CheckCircular
    \/ CheckVisited
    \/ CheckSatisfied
    \/ CheckMissing
    \/ CheckReturn
    \/ ReturnCheck

SpecResolve == InitResolve /\ [][NextResolve]_vars

FairResolve == SpecResolve /\ WF_vars(NextResolve)

----------------------------------------------------------------------------
(* ModuleInstaller: project configuration and install targets              *)

Kinds == <<"backend", "frontend">>

\* AppConfig
App(name, type, path) == [name |-> name, type |-> type, path |-> path]

\* lines 62-99: the cached configuration, or the parsed file, or null
GetProjectConfig ==
    IF projectConfig.present THEN projectConfig
    ELSE IF configFile.state # "ok" THEN NullConfig
    ELSE [present |-> TRUE, hasApps |-> configFile.hasApps,
          apps |-> configFile.apps, modules |-> configFile.modules]

\* lines 104-121: the first declared app whose path is a prefix of the
\* working directory's relative path; found = FALSE is null.
DetectCurrentApp(config) ==
    LET hits == {k \in DOMAIN config.apps :
                    StartsWith(cwdRel, config.apps[k].path)
                    \/ cwdRel = config.apps[k].path}
    IN  IF ~config.present \/ ~config.hasApps \/ hits = {}
        THEN [found |-> FALSE, app |-> App("", "", <<>>)]
        ELSE [found |-> TRUE,
              app |-> config.apps[CHOOSE k \in hits : \A j \in hits : k <= j]]

\* array.filter(keep), for a predicate given as the set of kept elements
RECURSIVE FilterSeq(_, _)
FilterSeq(seq, keep) ==
    IF seq = <<>> THEN <<>>
    ELSE (IF Head(seq) \in keep THEN <<Head(seq)>> ELSE <<>>)
         \o FilterSeq(Tail(seq), keep)

\* module.targets || ['backend', 'frontend']
ModuleTargets(module) == IF module.hasTargets THEN module.targets ELSE Kinds

\* config.apps.filter(a => a.type === targetType)
SameTypeApps(config, targetType) ==
    FilterSeq(config.apps, {x \in Range(config.apps) : x.type = targetType})

\* Mutant of FindApp: the first app of the kind, whatever the answer.
FindAppFirst(apps, appName) == apps[1]

\* sameTypeApps.find(a => a.name === appName)!  (type "" stands for undefined)
FindApp(apps, appName) ==
    LET hits == {k \in DOMAIN apps : apps[k].name = appName}
    IN  IF hits = {} THEN App("undefined", "", <<>>)
        ELSE apps[CHOOSE k \in hits : \A j \in hits : k <= j]

\* lines 153-190: one target per module target type, from the workspace root;
\* answer[t] is what the selection prompt for type t returns.
RECURSIVE RootTargets(_, _, _)
RootTargets(config, moduleTargets, answer) ==
    IF moduleTargets = <<>> THEN <<>>
    ELSE LET targetType == Head(moduleTargets)
             same == SameTypeApps(config, targetType)
             rest == RootTargets(config, Tail(moduleTargets), answer)
         IN  IF Len(same) = 0 THEN rest
             ELSE <<[app |-> IF Len(same) = 1 THEN same[1]
                              ELSE FindApp(same, answer[targetType]),
                     types |-> <<targetType>>]>> \o rest

\* The target types for which selectInstallTargets shows a prompt.
Prompted(module, config) ==
    IF ~config.present \/ ~config.hasApps \/ Len(config.apps) = 0
       \/ DetectCurrentApp(config).found
    THEN <<>>
    ELSE FilterSeq(ModuleTargets(module),
                   {t \in Range(Kinds) : Len(SameTypeApps(config, t)) > 1})

\* Mutant of SingleAppTarget: the implicit target has its app's kind only.
SingleAppTargetOwnKind == [app |-> App("", "backend", <<>>), types |-> <<"backend">>]

\* lines 130-137: the implicit target of single-app mode
SingleAppTarget == [app |-> App("", "backend", <<>>), types |-> Kinds]

\* lines 126-191
SelectInstallTargets(module, config, answer) ==
    IF ~config.present \/ ~config.hasApps \/ Len(config.apps) = 0
    THEN <<SingleAppTarget>>
    ELSE LET current == DetectCurrentApp(config)
             validTypes == FilterSeq(ModuleTargets(module), {current.app.type})
         IN  IF current.found
             THEN <<[app |-> current.app,
                     types |-> IF Len(validTypes) > 0 THEN validTypes
                               ELSE <<current.app.type>>]>>
             ELSE RootTargets(config, ModuleTargets(module), answer)

\* lines 196-204
FilterFilesByTarget(files, targetType) ==
    IF files.isArray THEN files.array
    ELSE IF targetType = "backend" THEN files.backend
    ELSE IF targetType = "frontend" THEN files.frontend
    ELSE <<>>

\* lines 209-214, relative to the project root (<<>> is the root itself)
GetInstallPath(app) == IF app.path # <<>> THEN app.path ELSE <<>>

----------------------------------------------------------------------------
(* ModuleInstaller: paths and file contents                                *)

\* resolve(installPath, fileConfig.target), relative to the project root
TargetPath(installPath, file) == JoinPath(installPath, file.target)

Slashes(path) == {k \in DOMAIN path : path[k] = "/"}

\* dirname(path)
Dirname(path) ==
    IF Slashes(path) = {} THEN <<>>
    ELSE SubSeq(path, 1, (CHOOSE k \in Slashes(path) : \A j \in Slashes(path) : j <= k) - 1)

\* path.split('/')
RECURSIVE Segments(_)
Segments(path) ==
    IF path = <<>> THEN <<>>
    ELSE IF Slashes(path) = {} THEN <<path>>
    ELSE LET k == CHOOSE x \in Slashes(path) : \A j \in Slashes(path) : x <= j
         IN  <<SubSeq(path, 1, k - 1)>> \o Segments(SubSeq(path, k + 1, Len(path)))

RECURSIVE JoinSegments(_)
JoinSegments(segs) ==
    IF segs = <<>> THEN <<>>
    ELSE IF Len(segs) = 1 THEN segs[1]
    ELSE segs[1] \o <<"/">> \o JoinSegments(Tail(segs))

\* Length of the longest common prefix of two segment lists.
RECURSIVE CommonPrefix(_, _)
CommonPrefix(x, y) ==
    IF x = <<>> \/ y = <<>> \/ Head(x) # Head(y) THEN 0
    ELSE 1 + CommonPrefix(Tail(x), Tail(y))

\* relative(from, to) of node:path, both relative to the project root
Relative(from, to) ==
    LET f == Segments(from)
        t == Segments(to)
        k == CommonPrefix(f, t)
    IN  JoinSegments([i \in 1..(Len(f) - k) |-> <<"..">>] \o SubSeq(t, k + 1, Len(t)))

\* lines 645-651: the module specifier of the import. file.target is taken
\* relative to the process working directory, not to the install path.
ModuleSpecifier(targetPath, file) ==
    LET relativePath == Relative(Dirname(targetPath), JoinPath(cwdRel, file.target))
        importPath == IF relativePath # <<>> /\ relativePath[1] = ".."
                      THEN relativePath ELSE <<"./">> \o relativePath
    IN  IF importPath[Len(importPath)] = ".ts"
        THEN SubSeq(importPath, 1, Len(importPath) - 1) ELSE importPath

\* What a file holds. kind: "user" (written by the project's owner),
\* "generated" (a materialized template), "source" (an entry file: its import
\* declarations and its other statements) or "env" (text).
Content(kind, module, imports, statements, text) ==
    [kind |-> kind, module |-> module, imports |-> imports,
     statements |-> statements, text |-> text]

UserFile == Content("user", "", <<>>, <<>>, <<>>)

\* lines 438-463: the template with its variables replaced, under the header
\* naming the generating module and version
ProcessTemplateVariables(file, module) ==
    Content("generated", module.name, <<>>, <<>>, <<file.path, module.version>>)

\* A statement of an entry file.
Statement(kind, text) == [kind |-> kind, text |-> text]

SourceFile(imports, statements) == Content("source", "", imports, statements, <<>>)

EnvFile(text) == Content("env", "", <<>>, <<>>, text)

Exists(path) == path \in DOMAIN fs

\* writeFile(path, content) on a file system
WriteFile(files, path, content) ==
    [q \in DOMAIN files \cup {path} |-> IF q = path THEN content ELSE files[q]]

\* What the running install did outside its own variables.
Effect(kind, arg) == [kind |-> kind, arg |-> arg]

----------------------------------------------------------------------------
(* RegistryManager.getRegistry                                             *)

\* The registries the three sources may hold.
RemoteModules == Registry({"a", "b", "c"}, <<>>, <<>>, <<>>)

CwdModules == Registry({"a"}, <<>>, <<>>, <<>>)

ToolModules == Registry({"a", "b"}, <<>>, <<>>, <<>>)

\* possiblePaths (lines 228-232): the file in options.cwd, then the file
\* beside the tool.
possiblePaths == <<"cwd/registry.json", "cli/registry.json">>

RegistryUrl == "registryUrl"

\* What `await fetch(registryUrl)` may give: a rejection, or a response with
\* a status and a body that is the registry's JSON, the JSON text null, or
\* no JSON.
NetworkError == [rejected |-> TRUE, status |-> 0, body |-> "none"]

Response(status, body) == [rejected |-> FALSE, status |-> status, body |-> body]

Fetched ==
    {NetworkError}
    \cup {Response(status, body) : status \in {200, 203, 404, 500},
                                   body \in {"json", "null", "invalid"}}

\* Mutant of ResponseOk: every response is taken.
ResponseOkAlways(response) == TRUE

\* response.ok (line 206): the status is in the range 200-299.
ResponseOk(response) == response.status \in 200..299

\* Lines 205-212 complete without an exception.
RemoteLoads(response) ==
    /\ ~response.rejected
    /\ ResponseOk(response)
    /\ response.body \in {"json", "null"}

\* `await response.json() as RegistryConfig` (line 210)
ResponseJson(response) ==
    IF response.body = "json" THEN LoadedRegistry(RemoteModules) ELSE NoRegistry

\* registry.modules as listModules hands it on (line 255); nothing is handed
\* on when the registry is null.
ListedModules(registry, before) ==
    IF registry.isNull THEN before ELSE registry.modules

\* Mutant of FirstReadable: the file beside the tool is not tried.
FirstReadableCwdOnly(files, i) ==
    IF i = 1 /\ files[1].state = "json" THEN 1 ELSE 0

\* The loop of lines 234-245: the first of possiblePaths, from position i
\* on, that readFile reads and JSON.parse parses; 0 when there is none.
RECURSIVE FirstReadable(_, _)
FirstReadable(files, i) ==
    IF i > Len(files) THEN 0
    ELSE IF files[i].state = "json" THEN i
    ELSE FirstReadable(files, i + 1)

\* The readFile calls of getLocalRegistry.
LocalReads(files) ==
    LET found == FirstReadable(files, 1)
        last  == IF found = 0 THEN Len(files) ELSE found
    IN  [k \in 1..last |-> Effect("readFile", <<possiblePaths[k]>>)]

\* getLocalRegistry (lines 222-248), after the effects `before`.
GetLocalRegistry(before) ==
    LET found == FirstReadable(registryFiles, 1)
    IN  /\ effects' = before \o LocalReads(registryFiles)
        /\ IF found = 0
           THEN /\ registryResult' = RegistryThrown
                /\ UNCHANGED <<cachedRegistry, modules>>
           ELSE /\ cachedRegistry' = registryFiles[found].registry
                /\ registryResult' = RegistryReturned(cachedRegistry')
                /\ modules' = ListedModules(cachedRegistry', modules)

\* What a getRegistry call leaves alone.
RegistryFrame ==
    UNCHANGED <<moduleName, pc, resolveVars, configFile, cwdRel, fs, skipDeps,
                projectConfig, installTargets, ti, fi, results, errors,
                installedDeps, autoRegistrations, di, hi, ret, installs,
                options, registryFiles>>

\* lines 189-191: the cached registry is returned
GetRegistryCached ==
    /\ pc = "idle"
    /\ ~cachedRegistry.isNull
    /\ registryResult' = RegistryReturned(cachedRegistry)
    /\ modules' = cachedRegistry.modules
    /\ effects' = <<>>
    /\ UNCHANGED cachedRegistry
    /\ RegistryFrame

\* lines 194-196: local mode
GetRegistryLocal ==
    /\ pc = "idle"
    /\ cachedRegistry.isNull
    /\ options.local
    /\ GetLocalRegistry(<<>>)
    /\ RegistryFrame

\* lines 199-212: remote mode, the download succeeds
GetRegistryRemote(response) ==
    /\ pc = "idle"
    /\ cachedRegistry.isNull
    /\ ~options.local
    /\ RemoteLoads(response)
    /\ effects' = <<Effect("fetch", <<RegistryUrl>>)>>
    /\ cachedRegistry' = ResponseJson(response)
    /\ registryResult' = RegistryReturned(cachedRegistry')
    /\ modules' = ListedModules(cachedRegistry', modules)
    /\ RegistryFrame

\* lines 213-216: remote mode, the download fails
GetRegistryFallback(response) ==
    /\ pc = "idle"
    /\ cachedRegistry.isNull
    /\ ~options.local
    /\ ~RemoteLoads(response)
    /\ GetLocalRegistry(<<Effect("fetch", <<RegistryUrl>>),
                          Effect("warn", <<"registry">>)>>)
    /\ RegistryFrame

\* clearCache (lines 355-357)
ClearCache ==
    /\ pc = "idle"
    /\ ~cachedRegistry.isNull
    /\ cachedRegistry' = NoRegistry
    /\ UNCHANGED <<modules, effects, registryResult>>
    /\ RegistryFrame

\* A RegistryManager right after its constructor (lines 178-183), in local or
\* remote mode, with any two local files.
InitRegistry ==
    /\ \E local \in BOOLEAN : options = [local |-> local]
    /\ \E cwdFile \in {AbsentFile, InvalidFile, JsonFile(NoRegistry),
                       JsonFile(LoadedRegistry(CwdModules))} :
       \E toolFile \in {AbsentFile, InvalidFile, JsonFile(NoRegistry),
                        JsonFile(LoadedRegistry(ToolModules))} :
           registryFiles = <<cwdFile, toolFile>>
    /\ cachedRegistry = NoRegistry
    /\ registryResult = NoRegistryResult
    /\ modules = <<>>
    /\ moduleName = "a"
    /\ pc = "idle"
    /\ satisfied = <<>>
    /\ missing = <<>>
    /\ circular = <<>>
    /\ visited = {}
    /\ stack = <<>>
    /\ expansions = [n \in Names |-> 0]
    /\ calls = 0
    /\ InstallerIdle
    /\ configFile = NoConfigFile
    /\ cwdRel = <<>>
    /\ fs = <<>>

NextRegistry ==
    \/ GetRegistryCached
    \/ GetRegistryLocal
    \/ \E response \in Fetched : GetRegistryRemote(response)
    \/ \E response \in Fetched : GetRegistryFallback(response)
    \/ ClearCache

SpecRegistry == InitRegistry /\ [][NextRegistry]_vars

----------------------------------------------------------------------------
(* ModuleInstaller.install                                                 *)

\* Number of install calls in one run of the model.
MaxInstalls == 2

\* The module being installed (line 237).
Module == modules[moduleName]

\* Mutant of CreatedPaths: the paths of all results.
CreatedPathsOfAll(rs) == [k \in DOMAIN rs |-> rs[k].path]

\* results.filter(r => r.action === 'created').map(r => r.path)
RECURSIVE CreatedPaths(_)
CreatedPaths(rs) ==
    IF rs = <<>> THEN <<>>
    ELSE (IF Head(rs).action = "created" THEN <<Head(rs).path>> ELSE <<>>)
         \o CreatedPaths(Tail(rs))

\* Mutant of CatchResult: the exception's message is put last.
CatchResultMessageLast(message) ==
    [returned |-> TRUE, success |-> FALSE, installedFiles |-> CreatedPaths(results),
     installedDeps |-> installedDeps, errors |-> errors \o <<message>>]

\* lines 360-369: the catch block's return value
CatchResult(message) ==
    [returned |-> TRUE, success |-> FALSE, installedFiles |-> CreatedPaths(results),
     installedDeps |-> installedDeps, errors |-> <<message>> \o errors]

\* An exception reaches the catch block of install, which returns.
Throw(message) ==
    /\ ret' = CatchResult(message)
    /\ pc' = "idle"

\* Mutant of StageAfter: the environment files come before the dependencies.
StageAfterEnvFirst(stage) ==
    CASE stage = "files" -> "env"
      [] stage = "env" -> "deps"
      [] stage = "deps" -> "register"
      [] stage = "register" -> "hooks"
      [] stage = "hooks" -> "summary"

\* lines 277-336: the stages of install, in the order of the statements
StageAfter(stage) ==
    CASE stage = "files" -> "deps"
      [] stage = "deps" -> "env"
      [] stage = "env" -> "register"
      [] stage = "register" -> "hooks"
      [] stage = "hooks" -> "summary"

\* lines 225-234: a call of install starts; its locals are fresh
InstallBegin(m, sd) ==
    /\ pc = "idle"
    /\ installs < MaxInstalls
    /\ installs' = installs + 1
    /\ moduleName' = m
    /\ skipDeps' = sd
    /\ projectConfig' = GetProjectConfig
    /\ results' = <<>>
    /\ errors' = <<>>
    /\ installedDeps' = <<>>
    /\ autoRegistrations' = <<>>
    /\ installTargets' = <<>>
    /\ ti' = 1 /\ fi' = 1 /\ di' = 1 /\ hi' = 1
    /\ ret' = NoReturn
    /\ effects' = <<>>
    /\ satisfied' = <<>> /\ missing' = <<>> /\ circular' = <<>>
    /\ visited' = {} /\ stack' = <<>> /\ calls' = 0
    /\ expansions' = [n \in Names |-> 0]
    /\ pc' = "getModule"
    /\ UNCHANGED <<registryVars, modules, configFile, cwdRel, fs>>

\* lines 237-240: the registry has no such module
ModuleNotFound ==
    /\ pc = "getModule"
    /\ ~HasModule(moduleName)
    /\ Throw(Message("noModule", <<moduleName>>))
    /\ UNCHANGED <<registryVars, modules, moduleName, resolveVars, configFile, cwdRel, fs,
                   skipDeps, projectConfig, installTargets, ti, fi, results,
                   errors, installedDeps, autoRegistrations, di, hi, effects,
                   installs>>

\* What the selection prompt may return for each target type.
Answers ==
    [Range(Kinds) -> {x.name : x \in Range(projectConfig.apps)} \cup {"undefined"}]

\* lines 167-175: the prompts shown, each with the answer it returned
RECURSIVE PromptEffects(_, _)
PromptEffects(types, answer) ==
    IF types = <<>> THEN <<>>
    ELSE <<Effect("prompt", <<Head(types), answer[Head(types)]>>)>>
         \o PromptEffects(Tail(types), answer)

\* lines 256-258: target selection; logging the targets dereferences every
\* target's app, which throws for an app the prompt's answer did not name
SelectTargets(answer) ==
    /\ pc = "getModule"
    /\ HasModule(moduleName)
    /\ LET targets == SelectInstallTargets(Module, projectConfig, answer)
       IN  /\ installTargets' = targets
           /\ effects' = effects \o PromptEffects(Prompted(Module, projectConfig), answer)
           /\ IF \E k \in DOMAIN targets : targets[k].app.type = ""
              THEN Throw(Message("typeError", <<"app">>))
              ELSE pc' = "requires" /\ UNCHANGED ret
    /\ UNCHANGED <<registryVars, modules, moduleName, resolveVars, configFile, cwdRel, fs,
                   skipDeps, projectConfig, ti, fi, results, errors,
                   installedDeps, autoRegistrations, di, hi, installs>>

\* lines 261-263: module.requires && module.requires.length > 0
CheckRequires ==
    /\ pc = "requires"
    /\ pc' = IF Len(Module.requires) > 0 THEN "start" ELSE "files"
    /\ UNCHANGED <<registryVars, modules, moduleName, resolveVars, installVars>>

\* Mutant of DependencyProblem: only missing modules stop the install.
DependencyProblemMissingOnly(depCheck) == Len(depCheck.missing) > 0

\* lines 265, 270: depCheck.missing.length > 0, depCheck.circular.length > 0
DependencyProblem(depCheck) ==
    Len(depCheck.missing) > 0 \/ Len(depCheck.circular) > 0

\* line 263: what checkDependencies returned
DepCheck == [satisfied |-> satisfied, missing |-> missing, circular |-> circular]

\* lines 265-272: a missing or circular dependency is thrown
DepCheckFailed ==
    /\ pc = "done"
    /\ DependencyProblem(DepCheck)
    /\ Throw(IF missing # <<>> THEN Message("missingDeps", missing)
             ELSE Message("circularDeps", circular))
    /\ UNCHANGED <<registryVars, modules, moduleName, resolveVars, configFile, cwdRel, fs,
                   skipDeps, projectConfig, installTargets, ti, fi, results,
                   errors, installedDeps, autoRegistrations, di, hi, effects,
                   installs>>

\* line 274
DepCheckPassed ==
    /\ pc = "done"
    /\ ~DependencyProblem(DepCheck)
    /\ pc' = "files"
    /\ UNCHANGED <<registryVars, modules, moduleName, resolveVars, installVars>>

\* lines 280-286: the target and the file the loops stand at
Target == installTargets[ti]

FilteredFiles == FilterFilesByTarget(Module.files, Target.types[1])

AtFile == /\ pc = "files"
          /\ ti <= Len(installTargets)
          /\ fi <= Len(FilteredFiles)

FileConfig == FilteredFiles[fi]

FilePath == TargetPath(GetInstallPath(Target.app), FileConfig)

\* Mutant of ErrorsAfter: the message of a failed file is dropped.
ErrorsAfterDropped(es, result) == es

\* lines 292-295: if (result.action === 'error' && result.error) errors.push(...)
ErrorsAfter(es, result) ==
    IF result.action = "error" THEN Append(es, result.error) ELSE es

\* lines 290-308: the rest of the loop body, given installFile's result
AfterInstallFile(result) ==
    /\ results' = Append(results, result)
    /\ errors' = ErrorsAfter(errors, result)
    /\ autoRegistrations' =
           IF FileConfig.autoRegister.present
           THEN Append(autoRegistrations, [file |-> FileConfig, targetApp |-> Target.app])
           ELSE autoRegistrations
    /\ fi' = fi + 1

\* Mutant of TargetExists: the target is written whether it exists or not.
TargetExistsNever(path) == FALSE

\* existsSync(targetPath), line 383
TargetExists(path) == Exists(path)

\* lines 383-388: the target exists
FileSkipped ==
    /\ AtFile
    /\ TargetExists(FilePath)
    /\ AfterInstallFile(FileResult(FilePath, "skipped", NoMessage))
    /\ UNCHANGED <<registryVars, modules, moduleName, pc, resolveVars, configFile, cwdRel, fs,
                   skipDeps, projectConfig, installTargets, ti, installedDeps,
                   di, hi, ret, effects, installs>>

\* lines 392-400: the template cannot be read or fetched
FileReadError ==
    /\ AtFile
    /\ ~TargetExists(FilePath)
    /\ AfterInstallFile(FileResult(FilePath, "error",
                                   Message("readSource", <<FileConfig.path>>)))
    /\ UNCHANGED <<registryVars, modules, moduleName, pc, resolveVars, configFile, cwdRel, fs,
                   skipDeps, projectConfig, installTargets, ti, installedDeps,
                   di, hi, ret, effects, installs>>

\* lines 403-414: the file is written
FileCreated ==
    /\ AtFile
    /\ ~TargetExists(FilePath)
    /\ fs' = WriteFile(fs, FilePath, ProcessTemplateVariables(FileConfig, Module))
    /\ effects' = effects \o <<Effect("mkdir", Dirname(FilePath)),
                               Effect("write", FilePath)>>
    /\ AfterInstallFile(FileResult(FilePath, "created", NoMessage))
    /\ UNCHANGED <<registryVars, modules, moduleName, pc, resolveVars, configFile, cwdRel,
                   skipDeps, projectConfig, installTargets, ti, installedDeps,
                   di, hi, ret, installs>>

\* line 406: mkdir rejects; nothing in installFile catches it
FileMkdirThrows ==
    /\ AtFile
    /\ ~TargetExists(FilePath)
    /\ Throw(Message("mkdir", Dirname(FilePath)))
    /\ UNCHANGED <<registryVars, modules, moduleName, resolveVars, configFile, cwdRel, fs,
                   skipDeps, projectConfig, installTargets, ti, fi, results,
                   errors, installedDeps, autoRegistrations, di, hi, effects,
                   installs>>

\* line 409: writeFile rejects; nothing in installFile catches it
FileWriteThrows ==
    /\ AtFile
    /\ ~TargetExists(FilePath)
    /\ effects' = Append(effects, Effect("mkdir", Dirname(FilePath)))
    /\ Throw(Message("write", FilePath))
    /\ UNCHANGED <<registryVars, modules, moduleName, resolveVars, configFile, cwdRel, fs,
                   skipDeps, projectConfig, installTargets, ti, fi, results,
                   errors, installedDeps, autoRegistrations, di, hi, installs>>

\* line 285: the files of one target are done
TargetDone ==
    /\ pc = "files"
    /\ ti <= Len(installTargets)
    /\ fi > Len(FilteredFiles)
    /\ ti' = ti + 1
    /\ fi' = 1
    /\ UNCHANGED <<registryVars, modules, moduleName, pc, resolveVars, configFile, cwdRel, fs,
                   skipDeps, projectConfig, installTargets, results, errors,
                   installedDeps, autoRegistrations, di, hi, ret, effects,
                   installs>>

\* line 280: all targets are done
FilesDone ==
    /\ pc = "files"
    /\ ti > Len(installTargets)
    /\ pc' = StageAfter(pc)
    /\ UNCHANGED <<registryVars, modules, moduleName, resolveVars, installVars>>

\* Mutant of WorkDir: the directory of the last target.
WorkDirOfLast == GetInstallPath(installTargets[Len(installTargets)].app)

\* lines 314-315, 322-323: the first target's directory
WorkDir == GetInstallPath(installTargets[1].app)

\* line 312
InstallsDeps ==
    ~skipDeps /\ Len(Module.dependencies) > 0 /\ Len(installTargets) > 0

\* lines 517-533: the package manager named by the lock file in workDir
DetectPackageManager(workDir) ==
    IF Exists(JoinPath(workDir, <<"bun.lockb">>)) THEN "bun"
    ELSE IF Exists(JoinPath(workDir, <<"pnpm-lock.yaml">>)) THEN "pnpm"
    ELSE IF Exists(JoinPath(workDir, <<"yarn.lock">>)) THEN "yarn"
    ELSE IF Exists(JoinPath(workDir, <<"package-lock.json">>)) THEN "npm"
    ELSE "bun"

\* `${packageManager} add ${dep.name}@${dep.version}` run in workDir
AddCommand(dep, workDir) ==
    Effect("exec", <<DetectPackageManager(workDir), "add", dep.name, dep.version>>
                   \o workDir)

\* line 312: the condition is false
DepsSkipped ==
    /\ pc = "deps"
    /\ ~InstallsDeps
    /\ pc' = StageAfter(pc)
    /\ UNCHANGED <<registryVars, modules, moduleName, resolveVars, installVars>>

\* lines 498-505: execSync returns
DepInstalled ==
    /\ pc = "deps"
    /\ InstallsDeps
    /\ di <= Len(Module.dependencies)
    /\ effects' = Append(effects, AddCommand(Module.dependencies[di], WorkDir))
    /\ installedDeps' = Append(installedDeps, Module.dependencies[di].name)
    /\ di' = di + 1
    /\ UNCHANGED <<registryVars, modules, moduleName, pc, resolveVars, configFile, cwdRel, fs,
                   skipDeps, projectConfig, installTargets, ti, fi, results,
                   errors, autoRegistrations, hi, ret, installs>>

\* Mutant of AfterFailedDep: a failed dependency ends the loop.
AfterFailedDepStop(i) == Len(Module.dependencies) + 1

\* lines 497, 506-508: the catch block ends the iteration, the loop goes on
AfterFailedDep(i) == i + 1

\* lines 506-508: execSync throws, which is logged
DepFailed ==
    /\ pc = "deps"
    /\ InstallsDeps
    /\ di <= Len(Module.dependencies)
    /\ effects' = effects \o <<AddCommand(Module.dependencies[di], WorkDir),
                               Effect("warn", <<Module.dependencies[di].name>>)>>
    /\ di' = AfterFailedDep(di)
    /\ UNCHANGED <<registryVars, modules, moduleName, pc, resolveVars, configFile, cwdRel, fs,
                   skipDeps, projectConfig, installTargets, ti, fi, results,
                   errors, installedDeps, autoRegistrations, hi, ret, installs>>

\* lines 511, 317
DepsDone ==
    /\ pc = "deps"
    /\ InstallsDeps
    /\ di > Len(Module.dependencies)
    /\ pc' = StageAfter(pc)
    /\ UNCHANGED <<registryVars, modules, moduleName, resolveVars, installVars>>

\* line 321
ConfiguresEnv == Len(Module.envVariables) > 0 /\ Len(installTargets) > 0

\* Mutant of Separator: the new line is glued to the text as it stands.
SeparatorNever(text) == <<>>

\* lines 563, 568: envContent && !envContent.endsWith('\n') ? '\n' : ''
Separator(text) ==
    IF text # <<>> /\ text[Len(text)] # "\n" THEN <<"\n">> ELSE <<>>

\* lines 556-568, for one of the two files: the text after the loop
RECURSIVE MergeEnv(_, _)
MergeEnv(text, variables) ==
    IF variables = <<>> THEN text
    ELSE LET v == Head(variables)
             line == v.name \o <<"=">> \o v.default
         IN  MergeEnv(IF Includes(text, v.name \o <<"=">>) THEN text
                      ELSE text \o Separator(text) \o line \o <<"\n">>,
                      Tail(variables))

EnvPath(workDir) == JoinPath(workDir, <<".env">>)

EnvExamplePath(workDir) == JoinPath(workDir, <<".env.example">>)

\* lines 546-552: the file's text, or '' when it does not exist
ReadEnv(path) == IF Exists(path) THEN fs[path].text ELSE <<>>

\* line 321: the condition is false
EnvSkipped ==
    /\ pc = "env"
    /\ ~ConfiguresEnv
    /\ pc' = StageAfter(pc)
    /\ UNCHANGED <<registryVars, modules, moduleName, resolveVars, installVars>>

\* lines 538-585: both files are written
EnvConfigured ==
    /\ pc = "env"
    /\ ConfiguresEnv
    /\ LET env == EnvPath(WorkDir)
           example == EnvExamplePath(WorkDir)
       IN  /\ fs' = WriteFile(
                       WriteFile(fs, env,
                                 EnvFile(MergeEnv(ReadEnv(env), Module.envVariables))),
                       example,
                       EnvFile(MergeEnv(ReadEnv(example), Module.envVariables)))
           /\ effects' = effects \o <<Effect("envwrite", env),
                                      Effect("envwrite", example)>>
    /\ pc' = StageAfter(pc)
    /\ UNCHANGED <<registryVars, modules, moduleName, resolveVars, configFile, cwdRel,
                   skipDeps, projectConfig, installTargets, ti, fi, results,
                   errors, installedDeps, autoRegistrations, di, hi, ret,
                   installs>>

\* lines 579-580: the first (k = 1) or the second (k = 2) writeFile rejects
EnvWriteThrows(k) ==
    /\ pc = "env"
    /\ ConfiguresEnv
    /\ LET env == EnvPath(WorkDir)
       IN  IF k = 1
           THEN /\ UNCHANGED <<fs, effects>>
                /\ Throw(Message("write", env))
           ELSE /\ fs' = WriteFile(fs, env,
                                   EnvFile(MergeEnv(ReadEnv(env), Module.envVariables)))
                /\ effects' = Append(effects, Effect("envwrite", env))
                /\ Throw(Message("write", EnvExamplePath(WorkDir)))
    /\ UNCHANGED <<registryVars, modules, moduleName, resolveVars, configFile, cwdRel,
                   skipDeps, projectConfig, installTargets, ti, fi, results,
                   errors, installedDeps, autoRegistrations, di, hi, installs>>

\* lines 609-610: the entry file of one registration and its group key
InjectPath(reg) == JoinPath(GetInstallPath(reg.targetApp), reg.file.autoRegister.injectIn)

GroupKey(reg) == <<reg.targetApp.name, InjectPath(reg)>>

\* lines 602-615: the keys of the Map `grouped`, in insertion order
RECURSIVE GroupKeys(_, _)
GroupKeys(regs, seen) ==
    IF regs = <<>> THEN <<>>
    ELSE IF GroupKey(Head(regs)) \in seen THEN GroupKeys(Tail(regs), seen)
    ELSE <<GroupKey(Head(regs))>>
         \o GroupKeys(Tail(regs), seen \cup {GroupKey(Head(regs))})

\* grouped.get(key)
GroupFiles(regs, key) == FilterSeq(regs, {r \in Range(regs) : GroupKey(r) = key})

\* An import declaration: import defaultImport from 'moduleSpecifier'
ImportDeclaration(defaultImport, moduleSpecifier) ==
    [defaultImport |-> defaultImport, moduleSpecifier |-> moduleSpecifier]

\* lines 649-652 for every file of the group: the declarations added
RECURSIVE AddedImports(_, _)
AddedImports(targetPath, regs) ==
    IF regs = <<>> THEN <<>>
    ELSE <<ImportDeclaration(Head(regs).file.autoRegister.importAs,
                             ModuleSpecifier(targetPath, Head(regs).file))>>
         \o AddedImports(targetPath, Tail(regs))

\* lines 655-662 change nothing in the file: the markers are looked up and
\* the outcome is logged.
AddedStatements(targetPath, regs) == <<>>

\* lines 627-667: the entry file as saved
RegisterToFile(files, targetPath, regs) ==
    LET old == IF targetPath \in DOMAIN files THEN files[targetPath]
               ELSE SourceFile(<<>>, <<>>)
    IN  WriteFile(files, targetPath,
                  SourceFile(old.imports \o AddedImports(targetPath, regs),
                             old.statements \o AddedStatements(targetPath, regs)))

\* lines 618-621: the first n groups registered
RECURSIVE RegisterGroups(_, _, _, _)
RegisterGroups(files, regs, keys, n) ==
    IF n = 0 THEN files
    ELSE RegisterToFile(RegisterGroups(files, regs, keys, n - 1),
                        keys[n][2], GroupFiles(regs, keys[n]))

InjectEffects(keys, n) == [k \in 1..n |-> Effect("inject", keys[k][2])]

\* line 328: nothing to register
RegisterSkipped ==
    /\ pc = "register"
    /\ autoRegistrations = <<>>
    /\ pc' = StageAfter(pc)
    /\ UNCHANGED <<registryVars, modules, moduleName, resolveVars, installVars>>

\* lines 590-622: every group is registered and saved
AutoRegistered ==
    /\ pc = "register"
    /\ autoRegistrations # <<>>
    /\ LET keys == GroupKeys(autoRegistrations, {})
       IN  /\ fs' = RegisterGroups(fs, autoRegistrations, keys, Len(keys))
           /\ effects' = effects \o InjectEffects(keys, Len(keys))
    /\ pc' = StageAfter(pc)
    /\ UNCHANGED <<registryVars, modules, moduleName, resolveVars, configFile, cwdRel,
                   skipDeps, projectConfig, installTargets, ti, fi, results,
                   errors, installedDeps, autoRegistrations, di, hi, ret,
                   installs>>

\* lines 636-666: loading, creating or saving the entry file of group n throws
AutoRegisterThrows(n) ==
    /\ pc = "register"
    /\ autoRegistrations # <<>>
    /\ LET keys == GroupKeys(autoRegistrations, {})
       IN  /\ n \in 1..Len(keys)
           /\ fs' = RegisterGroups(fs, autoRegistrations, keys, n - 1)
           /\ effects' = effects \o InjectEffects(keys, n - 1)
           /\ Throw(Message("inject", keys[n][2]))
    /\ UNCHANGED <<registryVars, modules, moduleName, resolveVars, configFile, cwdRel,
                   skipDeps, projectConfig, installTargets, ti, fi, results,
                   errors, installedDeps, autoRegistrations, di, hi, installs>>

\* lines 672-673: the hook the loop stands at
AtHook == pc = "hooks" /\ hi <= Len(Module.hooks)

HookAction == Module.hooks[hi]

HookStep(done) ==
    /\ effects' = effects \o done
    /\ hi' = hi + 1
    /\ UNCHANGED <<registryVars, modules, moduleName, pc, resolveVars, configFile, cwdRel, fs,
                   skipDeps, projectConfig, installTargets, ti, fi, results,
                   errors, installedDeps, autoRegistrations, di, ret, installs>>

\* lines 675-679
HookLog ==
    /\ AtHook
    /\ HookAction.type = "log"
    /\ HookStep(IF HookAction.hasMessage THEN <<Effect("hook", <<"log", HookAction.message>>)>>
                ELSE <<>>)

\* lines 680-687
HookEnv ==
    /\ AtHook
    /\ HookAction.type = "env"
    /\ HookStep(<<Effect("hook", <<"env">> \o HookAction.variables)>>)

\* lines 688-691: the command, taken from hook.message, succeeds
HookCommandRan ==
    /\ AtHook
    /\ HookAction.type = "command"
    /\ HookAction.hasMessage
    /\ HookStep(<<Effect("hook", <<"command", HookAction.message, "ok">>)>>)

\* lines 692-694: the command fails, which is logged
HookCommandFailed ==
    /\ AtHook
    /\ HookAction.type = "command"
    /\ HookAction.hasMessage
    /\ HookStep(<<Effect("hook", <<"command", HookAction.message, "failed">>)>>)

\* line 674: no case of the switch applies, or the command hook has no message
HookNoOp ==
    /\ AtHook
    /\ \/ HookAction.type \notin {"log", "env", "command"}
       \/ HookAction.type = "command" /\ ~HookAction.hasMessage
    /\ HookStep(<<>>)

\* line 673: the loop is exhausted
HooksDone ==
    /\ pc = "hooks"
    /\ hi > Len(Module.hooks)
    /\ pc' = StageAfter(pc)
    /\ UNCHANGED <<registryVars, modules, moduleName, resolveVars, installVars>>

\* lines 339-359: the result of a run no exception ended
Summary ==
    /\ pc = "summary"
    /\ ret' = [returned |-> TRUE, success |-> (Len(errors) = 0),
               installedFiles |-> CreatedPaths(results),
               installedDeps |-> installedDeps, errors |-> errors]
    /\ pc' = "idle"
    /\ UNCHANGED <<registryVars, modules, moduleName, resolveVars, configFile, cwdRel, fs,
                   skipDeps, projectConfig, installTargets, ti, fi, results,
                   errors, installedDeps, autoRegistrations, di, hi, effects,
                   installs>>

----------------------------------------------------------------------------
(* Projects and registries install runs on                                 *)

\* Total number of requires entries in a registry install runs on.
MaxInstallEdges == 2

\* An entry file with both marker comments and a call chain.
MarkedEntry ==
    SourceFile(<<ImportDeclaration("Elysia", <<"elysia">>)>>,
               << Statement("comment", <<"//", "@plugins">>),
                  Statement("chain", <<"app", ".use(", "cors", ")">>),
                  Statement("comment", <<"//", "@routes">>) >>)

\* The files a project may hold before the first install.
InitialFileSystems ==
    {f \in UNION {[D -> {UserFile, MarkedEntry}] :
                    D \in SUBSET {EntryFile, <<"src", "/", "a1", ".ts">>}} :
        \A q \in DOMAIN f : (f[q] = MarkedEntry) <=> (q = EntryFile)}

\* A workspace with one backend and one frontend app.
WorkspaceConfig ==
    ConfigDocument(TRUE,
                   << App("api", "backend", <<"apps", "/", "api">>),
                      App("web", "frontend", <<"apps", "/", "web">>) >>,
                   <<>>)

\* The registry in which no module requires another.
PlainRegistry == Registry({"a", "b"}, <<>>, <<>>, <<>>)

NoFiles == <<>>

\* A registry whose module a is for frontend apps only, and a workspace
\* that has none: target selection yields no target.
FrontendRegistry ==
    [k \in {"a"} |-> [Descriptor(k, <<>>) EXCEPT !.hasTargets = TRUE,
                                                !.targets = <<"frontend">>]]

BackendWorkspace ==
    ConfigDocument(TRUE, << App("api", "backend", <<"apps", "/", "api">>) >>, <<>>)

\* The registry whose only module has one file and requires nothing.
OneFileRegistry == Registry({"c"}, <<>>, <<>>, <<>>)

\* The requires lists of module k in a registry install runs on: they name
\* a, b or c, and c is no key of these registries.
InstallRequiresLists(k, ks, budget) ==
    IF k \in ks THEN SeqsUpTo(ModuleNames, budget) ELSE {<<>>}

\* Every registry on an empty project, and the plain registry on every project.
InitInstall ==
    /\ \/ /\ \E ks \in {{"a"}, {"a", "b"}} :
             \E ra \in InstallRequiresLists("a", ks, MaxInstallEdges) :
             \E rb \in InstallRequiresLists("b", ks, MaxInstallEdges - Len(ra)) :
                 modules = Registry(ks, ra, rb, <<>>)
          /\ configFile = NoConfigFile
          /\ fs = NoFiles
       \/ /\ modules = OneFileRegistry
          /\ configFile = NoConfigFile
          /\ fs = NoFiles
       \/ /\ modules = FrontendRegistry
          /\ configFile = BackendWorkspace
          /\ fs = NoFiles
       \/ /\ modules = PlainRegistry
          /\ \/ /\ configFile \in {NoConfigFile, ConfigDocument(TRUE, <<>>, <<>>)}
                /\ fs \in InitialFileSystems
             \/ /\ configFile = WorkspaceConfig
                /\ fs = NoFiles
    /\ moduleName = "a"
    /\ pc = "idle"
    /\ satisfied = <<>>
    /\ missing = <<>>
    /\ circular = <<>>
    /\ visited = {}
    /\ stack = <<>>
    /\ expansions = [n \in Names |-> 0]
    /\ calls = 0
    /\ InstallerIdle
    /\ cwdRel = <<>>
    /\ RegistryLoaded

NextInstall ==
    \/ \E m \in ModuleNames : \E sd \in BOOLEAN : InstallBegin(m, sd)
    \/ ModuleNotFound
    \/ \E answer \in Answers : SelectTargets(answer)
    \/ CheckRequires
    \/ StartCheck
    \/ CheckCircular
    \/ CheckVisited
    \/ CheckSatisfied
    \/ CheckMissing
    \/ CheckReturn
    \/ ReturnCheck
    \/ DepCheckFailed
    \/ DepCheckPassed
    \/ FileSkipped
    \/ FileReadError
    \/ FileCreated
    \/ FileMkdirThrows
    \/ FileWriteThrows
    \/ TargetDone
    \/ FilesDone
    \/ DepsSkipped
    \/ DepInstalled
    \/ DepFailed
    \/ DepsDone
    \/ EnvSkipped
    \/ EnvConfigured
    \/ \E k \in {1, 2} : EnvWriteThrows(k)
    \/ RegisterSkipped
    \/ AutoRegistered
    \/ \E n \in 1..2 : AutoRegisterThrows(n)
    \/ HookLog
    \/ HookEnv
    \/ HookCommandRan
    \/ HookCommandFailed
    \/ HookNoOp
    \/ HooksDone
    \/ Summary

SpecInstall == InitInstall /\ [][NextInstall]_vars

----------------------------------------------------------------------------
(* configureEnvVariables on every small environment file                   *)

\* Number of declared environment variables of the module.
MaxEnvVariables == 2

\* Number of lines an environment file holds before the first call.
MaxEnvLines == 2

\* Number of calls of configureEnvVariables in one run.
MaxEnvCalls == 2

\* EnvVariable: a name and a default ('' when there is none). The name
\* MY_KEY ends in the name KEY.
EnvVariable(name, default) == [name |-> name, default |-> default]

DeclaredVariables ==
    { EnvVariable(<<"KEY">>, <<"v">>),
      EnvVariable(<<"KEY">>, <<>>),
      EnvVariable(<<"MY_", "KEY">>, <<"v">>) }

\* Lines of an environment file: KEY=1, MY_KEY=1 and URL=xKEY=1.
EnvLines ==
    { <<"KEY", "=", "1">>,
      <<"MY_", "KEY", "=", "1">>,
      <<"URL", "=", "x", "KEY", "=", "1">> }

\* The text of the given lines, the last one with or without its newline.
RECURSIVE JoinLines(_, _)
JoinLines(lines, trailing) ==
    IF lines = <<>> THEN <<>>
    ELSE IF Len(lines) = 1
         THEN Head(lines) \o (IF trailing THEN <<"\n">> ELSE <<>>)
         ELSE Head(lines) \o <<"\n">> \o JoinLines(Tail(lines), trailing)

EnvTexts(n) ==
    {JoinLines(ls, trailing) : ls \in SeqsUpTo(EnvLines, n), trailing \in BOOLEAN}

\* The files of a project that holds the two environment files with the
\* given texts; an empty text is a file that does not exist.
EnvFiles(envText, exampleText) ==
    LET D == (IF envText = <<>> THEN {} ELSE {EnvPath(<<>>)})
             \cup (IF exampleText = <<>> THEN {} ELSE {EnvExamplePath(<<>>)})
    IN  [q \in D |-> EnvFile(IF q = EnvPath(<<>>) THEN envText ELSE exampleText)]

\* The registry whose module a declares the given environment variables.
EnvRegistry(variables) ==
    [k \in {"a"} |-> [Descriptor("a", <<>>) EXCEPT !.envVariables = variables]]

\* install at line 321 for a module in a project without configuration.
InitEnv ==
    /\ \E variables \in SeqsUpTo(DeclaredVariables, MaxEnvVariables) \ {<<>>} :
           modules = EnvRegistry(variables)
    /\ \E envText \in EnvTexts(MaxEnvLines) :
       \E exampleText \in EnvTexts(1) :
           fs = EnvFiles(envText, exampleText)
    /\ moduleName = "a"
    /\ pc = "env"
    /\ satisfied = <<>>
    /\ missing = <<>>
    /\ circular = <<>>
    /\ visited = {}
    /\ stack = <<>>
    /\ expansions = [n \in Names |-> 0]
    /\ calls = 0
    /\ configFile = NoConfigFile
    /\ cwdRel = <<>>
    /\ skipDeps = TRUE
    /\ projectConfig = NullConfig
    /\ installTargets = SelectInstallTargets(modules["a"], NullConfig, [t \in {} |-> ""])
    /\ ti = 2
    /\ fi = 1
    /\ results = <<>>
    /\ errors = <<>>
    /\ installedDeps = <<>>
    /\ autoRegistrations = <<>>
    /\ di = 1
    /\ hi = 1
    /\ ret = NoReturn
    /\ effects = <<>>
    /\ installs = 1
    /\ RegistryLoaded

\* lines 321-325: configureEnvVariables is called again with the same list
\* (the next install of the module).
EnvCalledAgain ==
    /\ pc = "register"
    /\ Len(effects) < 2 * MaxEnvCalls - 1
    /\ pc' = "env"
    /\ UNCHANGED <<registryVars, modules, moduleName, resolveVars, installVars>>

NextEnv ==
    \/ EnvConfigured
    \/ \E k \in {1, 2} : EnvWriteThrows(k)
    \/ EnvCalledAgain

SpecEnv == InitEnv /\ [][NextEnv]_vars

----------------------------------------------------------------------------
(* The requires graph of the registry, as the claims speak of it           *)

EdgesOf(n) == IF n \in DOMAIN modules THEN Range(modules[n].requires) ELSE {}

RECURSIVE Closure(_)
Closure(S) ==
    LET T == S \cup UNION {EdgesOf(n) : n \in S}
    IN  IF T = S THEN S ELSE Closure(T)

\* Names reachable from n through one or more requires edges.
ReachableFrom(n) == Closure(EdgesOf(n))

OnCycle(n) == n \in ReachableFrom(n)

\* No cycle can be reached from n.
AcyclicFrom(n) == \A x \in ReachableFrom(n) \cup {n} : ~OnCycle(x)

TotalEdges ==
    LET RECURSIVE Sum(_)
        Sum(S) == IF S = {} THEN 0
                  ELSE LET k == CHOOSE x \in S : TRUE
                       IN  Len(modules[k].requires) + Sum(S \ {k})
    IN  Sum(DOMAIN modules)

Resolved == pc = "done"

----------------------------------------------------------------------------
(* Claims about checkDependencies                                          *)

\* C1: for a module of the registry whose reachable requires graph is
\* acyclic and names only registry keys, checkDependencies returns an empty
\* missing list and an empty circular list.
C1_AcyclicPresentIsClean ==
    (/\ Resolved
     /\ moduleName \in DOMAIN modules
     /\ AcyclicFrom(moduleName)
     /\ ReachableFrom(moduleName) \subseteq DOMAIN modules)
    => (missing = <<>> /\ circular = <<>>)

\* C1 witness: such a module with a dependency reached along two paths.
C1_Witness ==
    /\ Resolved
    /\ moduleName \in DOMAIN modules
    /\ AcyclicFrom(moduleName)
    /\ ReachableFrom(moduleName) \subseteq DOMAIN modules
    /\ Cardinality(ReachableFrom(moduleName)) >= 2
    /\ calls > Cardinality(ReachableFrom(moduleName))

\* C2: when the module being resolved lies on a cycle of requires edges
\* (a self-requirement included), checkDependencies reports it in circular.
C2_CycleThroughStartReported ==
    (/\ Resolved
     /\ moduleName \in DOMAIN modules
     /\ OnCycle(moduleName))
    => moduleName \in Range(circular)

\* C2 witness: a cycle through the start module that is longer than a
\* self-requirement.
C2_Witness ==
    /\ Resolved
    /\ moduleName \in DOMAIN modules
    /\ OnCycle(moduleName)
    /\ moduleName \notin EdgesOf(moduleName)
    /\ moduleName \in Range(circular)

\* C3: checkDependencies terminates on every registry, cyclic ones
\* included, and reads the requires list of each name at most once per call.
C3_TerminatesExpandingOnce ==
    /\ <>Resolved
    /\ [](\A n \in Names : expansions[n] <= 1)
    /\ [](calls <= TotalEdges)

\* C3 witness: a finished call on a cyclic graph in which the visited set
\* cut off a repeated visit.
C3_Witness ==
    /\ Resolved
    /\ circular # <<>>
    /\ calls > Cardinality(visited) + Len(circular)

\* C4: every name reachable from a registry module that is no registry key
\* is in missing and not in satisfied, and missing holds only such names.
C4_AbsentNamesAreMissing ==
    (Resolved /\ moduleName \in DOMAIN modules)
    => /\ \A n \in ReachableFrom(moduleName) \ DOMAIN modules :
              n \in Range(missing) /\ n \notin Range(satisfied)
       /\ \A n \in Range(missing) :
              n \in ReachableFrom(moduleName) /\ n \notin DOMAIN modules

----------------------------------------------------------------------------
(* Claims about install                                                    *)

Returned == pc = "idle" /\ ret.returned

\* Effects on the project: everything but the selection prompt.
OutsideEffects == {k \in DOMAIN effects : effects[k].kind # "prompt"}

\* C5: when checkDependencies for the module being installed yields a
\* missing or circular entry, install returns success false with errors and
\* never reaches a file write, a package-manager call, an environment-file
\* write, a source injection or a hook.
C5_FailedResolutionStopsInstall ==
    (installs > 0 /\ pc \notin {"start", "check"}
     /\ (missing # <<>> \/ circular # <<>>))
    => /\ pc \in {"done", "idle"}
       /\ OutsideEffects = {}
       /\ results = <<>>
       /\ pc = "idle" => (ret.returned /\ ~ret.success /\ ret.errors # <<>>)

\* C5 witness: an install ended by a circular requirement.
C5_Witness ==
    /\ Returned
    /\ circular # <<>>
    /\ missing = <<>>
    /\ ~ret.success

\* C6: materializing a file whose target exists gives action skipped and
\* leaves the file as it is; no step of the file stage changes a file that
\* existed before the step.
C6_ExistingFilesAreKept ==
    [][pc = "files" =>
         /\ \A q \in DOMAIN fs : q \in DOMAIN fs' /\ fs'[q] = fs[q]
         /\ (AtFile /\ Exists(FilePath)) =>
                results' = Append(results, FileResult(FilePath, "skipped", NoMessage))]_vars

\* C6 witness: a second install skipped a file the first one had written,
\* and the run also skipped a file of the project's owner.
C6_Witness ==
    /\ installs = 2
    /\ \E k \in DOMAIN results :
           /\ results[k].action = "skipped"
           /\ fs[results[k].path].kind = "generated"
    /\ \E q \in DOMAIN fs : fs[q] = UserFile

\* C7: any failure while materializing one file (reading the template,
\* creating directories, writing the target) becomes a result with action
\* error and a message, and the file loop goes on with the next file.
C7_FileFailuresAreResults ==
    [][(AtFile /\ FilePath \notin DOMAIN fs /\ FilePath \notin DOMAIN fs')
         => /\ Len(results') = Len(results) + 1
            /\ results'[Len(results')].action = "error"
            /\ results'[Len(results')].error # NoMessage
            /\ pc' = "files"
            /\ fi' = fi + 1]_vars

\* C8: on the return of install, a success has left an installed-module
\* entry for the module in the persisted configuration, and a failure has
\* left the configuration as it was.
C8_SuccessIsRecorded ==
    [][(~ret.returned /\ ret'.returned)
         => IF ret'.success
            THEN /\ configFile'.state = "ok"
                 /\ \E k \in DOMAIN configFile'.modules :
                        configFile'.modules[k] =
                            [name |-> moduleName, version |-> Module.version]
            ELSE configFile' = configFile]_vars

\* Whether a statement of an entry file is a comment holding the marker.
IsMarker(stmt, marker) == stmt.kind = "comment" /\ Includes(stmt.text, <<marker>>)

HasMarker(content, marker) ==
    \E k \in DOMAIN content.statements : IsMarker(content.statements[k], marker)

ImportsOf(content, alias) ==
    Cardinality({k \in DOMAIN content.imports :
                    content.imports[k].defaultImport = alias})

\* Statements other than comments that mention the alias.
RegistrationsOf(content, alias) ==
    Cardinality({k \in DOMAIN content.statements :
                    /\ content.statements[k].kind # "comment"
                    /\ Includes(content.statements[k].text, <<alias>>)})

\* C9: injecting one auto-registered file into an entry file that holds the
\* configured marker adds exactly one import declaration and exactly one
\* registration statement to that file.
C9_InjectionAddsImportAndRegistration ==
    [][(pc = "register" /\ pc' = "hooks" /\ autoRegistrations # <<>>)
         => \A k \in DOMAIN autoRegistrations :
               LET reg == autoRegistrations[k]
                   alias == reg.file.autoRegister.importAs
                   entry == InjectPath(reg)
               IN  (Exists(entry) /\ HasMarker(fs[entry], reg.file.autoRegister.marker))
                   => /\ ImportsOf(fs'[entry], alias) = ImportsOf(fs[entry], alias) + 1
                      /\ RegistrationsOf(fs'[entry], alias)
                           = RegistrationsOf(fs[entry], alias) + 1]_vars

\* C10: however often a module is installed, an entry file holds at most one
\* import declaration per alias and module path.
C10_NoDuplicateImports ==
    \A q \in DOMAIN fs :
        fs[q].kind = "source"
        => \A i, j \in DOMAIN fs[q].imports :
               fs[q].imports[i] = fs[q].imports[j] => i = j

----------------------------------------------------------------------------
(* selectInstallTargets on every small project configuration               *)

\* Number of apps a project configuration declares.
MaxApps == 3

\* The apps a configuration may declare. The path apps/api2 begins with the
\* text of the path apps/api.
DeclaredApps ==
    { App("api", "backend", <<"apps", "/", "api">>),
      App("api2", "backend", <<"apps", "/", "api", "2">>),
      App("web", "frontend", <<"apps", "/", "web">>) }

\* monolith.config.json: absent, not JSON, without apps, or with a list of apps
ConfigFiles ==
    {NoConfigFile, BrokenConfigFile, ConfigDocument(FALSE, <<>>, <<>>)}
    \cup {ConfigDocument(TRUE, apps, <<>>) : apps \in SeqsUpTo(DeclaredApps, MaxApps)}

\* relative(projectRoot, cwd): the root, an app directory, a directory inside
\* an app, and a directory outside every app
WorkingDirectories ==
    {<<>>, <<"packages">>, <<"apps", "/", "api", "/", "src">>}
    \cup {x.path : x \in DeclaredApps}

\* ModuleConfig.targets: absent (<<>>), or a list of kinds
TargetLists ==
    {<<>>, <<"backend">>, <<"frontend">>,
     <<"backend", "frontend">>, <<"frontend", "backend">>}

\* The registry whose modules declare the given targets.
TargetRegistry(targets) ==
    [k \in {"a", "b"} |->
        [Descriptor(k, <<>>) EXCEPT !.hasTargets = targets # <<>>,
                                    !.targets = targets]]

InitTargets ==
    /\ \E targets \in TargetLists : modules = TargetRegistry(targets)
    /\ configFile \in ConfigFiles
    /\ cwdRel \in WorkingDirectories
    /\ fs = NoFiles
    /\ moduleName = "a"
    /\ pc = "idle"
    /\ satisfied = <<>>
    /\ missing = <<>>
    /\ circular = <<>>
    /\ visited = {}
    /\ stack = <<>>
    /\ expansions = [n \in Names |-> 0]
    /\ calls = 0
    /\ InstallerIdle
    /\ RegistryLoaded

\* install up to the return of selectInstallTargets (line 256)
NextTargets ==
    \/ \E m \in {"a", "b"} : InstallBegin(m, TRUE)
    \/ \E answer \in Answers : SelectTargets(answer)

SpecTargets == InitTargets /\ [][NextTargets]_vars

----------------------------------------------------------------------------
(* Claims about selectInstallTargets                                       *)

\* selectInstallTargets has returned in the running or the last install.
Selected ==
    /\ installs > 0
    /\ pc \in {"requires", "idle"}
    /\ pc = "idle" => ret.returned /\ installTargets # <<>>

\* The apps the configuration file declares.
ConfigApps ==
    IF configFile.state = "ok" /\ configFile.hasApps THEN configFile.apps ELSE <<>>

\* The working directory is the app's directory or lies below it.
Inside(app) == StartsWith(Segments(cwdRel), Segments(app.path))

C15_CurrentAppIsTheTarget ==
    Selected
    => \A k \in DOMAIN ConfigApps :
          Inside(ConfigApps[k])
          => Len(installTargets) = 1 /\ installTargets[1].app = ConfigApps[k]

\* C16: called from inside an app directory, every returned target has only
\* kinds that the module declares and that are the app's own kind.
C16_KindsAreDeclaredAndOwn ==
    (Selected /\ \E k \in DOMAIN ConfigApps : Inside(ConfigApps[k]))
    => \A k \in DOMAIN installTargets :
          Range(installTargets[k].types)
            \subseteq (Range(ModuleTargets(Module)) \cap {installTargets[k].app.type})

\* The answer the selection prompt for a kind returned.
PromptedKinds == {effects[k].arg[1] : k \in {j \in DOMAIN effects : effects[j].kind = "prompt"}}

PromptAnswer(kind) ==
    effects[CHOOSE k \in DOMAIN effects :
                effects[k].kind = "prompt" /\ effects[k].arg[1] = kind].arg[2]

AppsOfKind(kind) == SelectSeq(ConfigApps, LAMBDA x : x.type = kind)

\* The targets the rule for the workspace root gives for a list of kinds.
RECURSIVE ExpectedRootTargets(_)
ExpectedRootTargets(kinds) ==
    IF kinds = <<>> THEN <<>>
    ELSE LET kind == Head(kinds)
             apps == AppsOfKind(kind)
         IN  (IF Len(apps) = 0 THEN <<>>
              ELSE IF Len(apps) = 1 THEN <<[app |-> apps[1], types |-> <<kind>>]>>
              ELSE <<[app |-> CHOOSE x \in Range(apps) : x.name = PromptAnswer(kind),
                      types |-> <<kind>>]>>)
             \o ExpectedRootTargets(Tail(kinds))

\* C17: called from the workspace root, selectInstallTargets gives, for each
\* kind the module declares and in that order: the only app of the kind
\* without a prompt, no target when no app has the kind, and the app the
\* prompt's answer names when several have it.
C17_RootTargetsPerKind ==
    (Selected /\ cwdRel = <<>> /\ ConfigApps # <<>>)
    => /\ PromptedKinds = {kind \in Range(ModuleTargets(Module)) :
                              Len(AppsOfKind(kind)) > 1}
       /\ Len(installTargets) <= Len(ModuleTargets(Module))
       /\ (\A kind \in PromptedKinds :
              \E x \in Range(AppsOfKind(kind)) : x.name = PromptAnswer(kind))
          => installTargets = ExpectedRootTargets(ModuleTargets(Module))

\* C17 witness: the frontend target chosen automatically, then the backend
\* target chosen by the prompt's answer among two backend apps.
C17_Witness ==
    /\ Selected
    /\ cwdRel = <<>>
    /\ Module.targets = <<"frontend", "backend">>
    /\ Len(installTargets) = 2
    /\ installTargets[1].app.name = "web"
    /\ installTargets[2].app.name = "api2"
    /\ PromptedKinds = {"backend"}

----------------------------------------------------------------------------
(* Claims about configureEnvVariables                                      *)

\* text.split('\n') without the empty piece after a final newline
RECURSIVE SplitLines(_, _)
SplitLines(text, line) ==
    IF text = <<>> THEN (IF line = <<>> THEN <<>> ELSE <<line>>)
    ELSE IF Head(text) = "\n" THEN <<line>> \o SplitLines(Tail(text), <<>>)
    ELSE SplitLines(Tail(text), Append(line, Head(text)))

LinesOf(text) == SplitLines(text, <<>>)

TextAt(files, path) == IF path \in DOMAIN files THEN files[path].text ELSE <<>>

EnvFilePaths == {EnvPath(<<>>), EnvExamplePath(<<>>)}

\* The lines of a text that begin with NAME=
LinesFor(text, name) ==
    {k \in DOMAIN LinesOf(text) : StartsWith(LinesOf(text)[k], name \o <<"=">>)}

\* A step in which configureEnvVariables ran to its end.
EnvRan == pc = "env" /\ pc' = StageAfter("env")

EnvRanBefore == \E k \in DOMAIN effects : effects[k].kind = "envwrite"

\* C11: the first run of configureEnvVariables leaves exactly one line per
\* declared variable name in each file that had at most one such line, and
\* a second run with the same list changes nothing.
C11_EnvMergeIsIdempotent ==
    [][EnvRan =>
         IF EnvRanBefore THEN fs' = fs
         ELSE \A path \in EnvFilePaths :
              \A k \in DOMAIN Module.envVariables :
                 LET name == Module.envVariables[k].name
                 IN  Cardinality(LinesFor(TextAt(fs, path), name)) <= 1
                     => Cardinality(LinesFor(TextAt(fs', path), name)) = 1]_vars

\* The lines of a file after NAME=default was added for every variable
\* that had no line beginning with NAME=
RECURSIVE AppendedByLineStart(_, _)
AppendedByLineStart(lines, variables) ==
    IF variables = <<>> THEN lines
    ELSE LET v == Head(variables)
             present == \E k \in DOMAIN lines :
                            StartsWith(lines[k], v.name \o <<"=">>)
         IN  AppendedByLineStart(
                 IF present THEN lines
                 ELSE Append(lines, v.name \o <<"=">> \o v.default),
                 Tail(variables))

\* C12: configureEnvVariables appends NAME=default to a file if and only if
\* the file has no line beginning with NAME=, for each of the two files;
\* NAME= inside a longer name or in the middle of a line does not count.
C12_EnvAppendsByLineStart ==
    [][EnvRan =>
         \A path \in EnvFilePaths :
            LinesOf(TextAt(fs', path))
              = AppendedByLineStart(LinesOf(TextAt(fs, path)), Module.envVariables)]_vars

\* C13: configureEnvVariables keeps every line of the two environment files
\* unchanged and in its order, and adds new lines only after them.
C13_EnvLinesAreKept ==
    [][pc = "env" =>
         \A path \in EnvFilePaths :
            StartsWith(LinesOf(TextAt(fs', path)), LinesOf(TextAt(fs, path)))]_vars

\* C13 witness: a file that did not end in a newline kept its line and got
\* a declared variable after it.
C13_Witness ==
    /\ pc = "register"
    /\ LET lines == LinesOf(TextAt(fs, EnvPath(<<>>)))
       IN  /\ Len(lines) = 2
           /\ lines[1] = <<"URL", "=", "x", "KEY", "=", "1">>
           /\ lines[2] = <<"MY_", "KEY", "=", "v">>
    /\ TextAt(fs, EnvExamplePath(<<>>)) = <<"MY_", "KEY", "=", "v", "\n">>

----------------------------------------------------------------------------
(* Claims about the stages of install                                      *)

EffectsOfKind(kind) == SelectSeq(effects, LAMBDA x : x.kind = kind)

\* The names of the package-manager calls no warning follows.
RECURSIVE SucceededDeps(_)
SucceededDeps(es) ==
    IF es = <<>> THEN <<>>
    ELSE (IF Head(es).kind = "exec" /\ ~(Len(es) >= 2 /\ es[2].kind = "warn")
          THEN <<Head(es).arg[3]>> ELSE <<>>)
         \o SucceededDeps(Tail(es))

\* C18: installDependencies calls the package manager once per declared
\* dependency, in declaration order, whether earlier calls failed or not,
\* and returns the names of the calls that succeeded, in that order.
C18_EveryDependencyIsTriedOnce ==
    (pc \in {"deps", "env", "register", "hooks", "summary"} /\ InstallsDeps)
    => LET execs == EffectsOfKind("exec")
           deps == Module.dependencies
       IN  /\ Len(execs) = IF pc = "deps" THEN di - 1 ELSE Len(deps)
           /\ \A k \in DOMAIN execs :
                 /\ k <= Len(deps)
                 /\ execs[k].arg[2] = "add"
                 /\ execs[k].arg[3] = deps[k].name
                 /\ execs[k].arg[4] = deps[k].version
           /\ installedDeps = SucceededDeps(effects)

\* C18 witness: the first dependency failed and the second was installed.
C18_Witness ==
    /\ pc = "env"
    /\ InstallsDeps
    /\ installedDeps = <<"d2">>
    /\ Len(EffectsOfKind("exec")) = 2

\* The hooks executeHooks has something to do for, and the shell command of
\* a command hook.
RunnableHooks ==
    SelectSeq(Module.hooks,
              LAMBDA h : \/ h.type = "log" /\ h.hasMessage
                         \/ h.type = "env"
                         \/ h.type = "command" /\ (h.hasCommand \/ h.hasMessage))

ShellCommandOf(h) == IF h.hasCommand THEN h.command ELSE h.message

\* C19: executeHooks runs every declared hook, one at a time and in
\* declaration order; a command hook runs its shell command, and a failing
\* command neither stops the later hooks nor adds an error to the install.
C19_HooksRunInOrder ==
    pc = "summary"
    => LET ran == EffectsOfKind("hook")
       IN  /\ Len(ran) = Len(RunnableHooks)
           /\ \A k \in DOMAIN ran :
                 /\ k <= Len(RunnableHooks)
                 /\ ran[k].arg[1] = RunnableHooks[k].type
                 /\ RunnableHooks[k].type = "command"
                    => ran[k].arg[2] = ShellCommandOf(RunnableHooks[k])
           /\ \A k \in DOMAIN errors : errors[k].kind = "readSource"

StageOf(kind) ==
    CASE kind = "prompt" -> 0
      [] kind \in {"mkdir", "write"} -> 1
      [] kind \in {"exec", "warn"} -> 2
      [] kind = "envwrite" -> 3
      [] kind = "inject" -> 4
      [] kind = "hook" -> 5

\* C20: within one install, every file is materialized before the first
\* package-manager call, every such call ends before the environment files
\* are written, these are written before any source injection, and every
\* injection ends before the first hook.
C20_StagesInOrder ==
    \A i, j \in DOMAIN effects :
        i < j => StageOf(effects[i].kind) <= StageOf(effects[j].kind)

\* C20 witness: an install that wrote files, called the package manager,
\* wrote the environment files, injected and ran hooks.
C20_Witness ==
    /\ Returned
    /\ ret.success
    /\ \A stage \in 1..5 :
          \E k \in DOMAIN effects : StageOf(effects[k].kind) = stage

----------------------------------------------------------------------------
(* Claims about the course and the result of install                       *)

\* C21: within one install, dependency resolution runs before target
\* selection: while checkDependencies runs, and after it has reported a
\* missing or circular entry, no target has been selected and no selection
\* prompt has been shown.
C21_ResolutionBeforeTargetSelection ==
    (installs > 0
     /\ (pc \in {"start", "check", "done"} \/ missing # <<>> \/ circular # <<>>))
    => /\ installTargets = <<>>
       /\ EffectsOfKind("prompt") = <<>>

\* The paths of the results with action created.
PathsCreated ==
    LET created == SelectSeq(results, LAMBDA r : r.action = "created")
    IN  [k \in DOMAIN created |-> created[k].path]

\* The paths writeFile wrote in the file stage.
PathsWritten ==
    LET written == EffectsOfKind("write")
    IN  [k \in DOMAIN written |-> written[k].arg]

\* C22: in every result install returns, success is true exactly when
\* errors is empty, and installedFiles is the list of the paths this run
\* created, without skipped and failed files.
C22_ResultShape ==
    Returned
    => /\ ret.success <=> (ret.errors = <<>>)
       /\ ret.installedFiles = PathsCreated
       /\ ret.installedFiles = PathsWritten

\* C22 witness: module c, which requires nothing and has one file, installed
\* into an empty project without configuration.
C22_Witness ==
    /\ Returned
    /\ installs = 1
    /\ moduleName \in DOMAIN modules
    /\ Module.requires = <<>>
    /\ Module.files.isArray /\ Len(Module.files.array) = 1
    /\ configFile = NoConfigFile
    /\ ret.success
    /\ ret.installedFiles = <<Module.files.array[1].target>>
    /\ ret.errors = <<>>
    /\ DOMAIN fs = {Module.files.array[1].target}

----------------------------------------------------------------------------
(* Claims about getRegistry                                                *)

\* What the local files give: the registry of the file in the working
\* directory when it reads and parses, else that of the file beside the
\* tool, else a failure.
LocalOutcome ==
    IF registryFiles[1].state = "json"
    THEN RegistryReturned(registryFiles[1].registry)
    ELSE IF registryFiles[2].state = "json"
    THEN RegistryReturned(registryFiles[2].registry)
    ELSE RegistryThrown

\* A getRegistry call in remote mode that got this answer to its fetch.
Downloaded(response) ==
    GetRegistryRemote(response) \/ GetRegistryFallback(response)

\* In local mode no fetch is made.
NoFetchInLocalMode == options.local => EffectsOfKind("fetch") = <<>>

\* C23 as stated: in remote mode a failed fetch or a response with a status
\* other than 200 makes getRegistry give what the local files give (working
\* directory first, tool second, failure when neither reads and parses); in
\* local mode nothing is fetched.
C23_Non200FallsBackToLocal ==
    [][/\ \A response \in Fetched :
            Downloaded(response) /\ (response.rejected \/ response.status # 200)
            => registryResult' = LocalOutcome
       /\ NoFetchInLocalMode']_vars

\* C23 amended: the same for a failed fetch, a response with a status
\* outside 200-299 or a body that is not JSON; a call fails only when
\* neither local file reads and parses.
C23_FailedDownloadFallsBackToLocal ==
    [][/\ \A response \in Fetched :
            /\ Downloaded(response)
            /\ \/ response.rejected
               \/ response.status < 200
               \/ response.status > 299
               \/ response.body = "invalid"
            => registryResult' = LocalOutcome
       /\ registryResult'.state = "thrown" => LocalOutcome = RegistryThrown
       /\ NoFetchInLocalMode']_vars

\* C23 witness: in remote mode the download failed, the file in the working
\* directory did not parse and the registry beside the tool was returned.
C23_Witness ==
    /\ ~options.local
    /\ registryFiles[1].state # "json"
    /\ [k \in DOMAIN effects |-> effects[k].kind]
         = <<"fetch", "warn", "readFile", "readFile">>
    /\ registryResult = RegistryReturned(LoadedRegistry(ToolModules))

----------------------------------------------------------------------------
(* Claims about the file stage and what follows it                         *)

\* The files of the module that are of a kind: all of a flat array, the
\* kind's list of a mapping.
FilesOfKind(kind) ==
    IF Module.files.isArray THEN Module.files.array ELSE Module.files[kind]

\* C24: when the file stage of install is over, every file of every kind of
\* every target has been materialized under the target's directory (it has
\* a result, created, skipped or error); in single-app mode both the backend
\* and the frontend files of a kind-keyed mapping under the project root.
C24_FilesOfEveryKindAreMaterialized ==
    pc = "deps"
    => \A t \in DOMAIN installTargets :
       \A kind \in Range(installTargets[t].types) :
       \A f \in Range(FilesOfKind(kind)) :
       \E r \in DOMAIN results :
           results[r].path = JoinPath(installTargets[t].app.path, f.target)

\* All files the module declares, of whatever kind.
DeclaredFiles ==
    Range(Module.files.array) \cup Range(Module.files.backend)
    \cup Range(Module.files.frontend)

\* The number of imports of the alias in the entry file of a file system.
ImportCount(files, entry, alias) ==
    IF entry \in DOMAIN files /\ files[entry].kind = "source"
    THEN ImportsOf(files[entry], alias)
    ELSE 0

\* C25: the injection stage adds no import for a file declaring autoRegister
\* whose materialization in this run was skipped or failed: the entry file
\* holds as many imports of its alias after the stage as before.
C25_InjectionOnlyForCreatedFiles ==
    [][(pc = "register" /\ pc' = StageAfter("register"))
         => \A r \in DOMAIN results :
            \A t \in DOMAIN installTargets :
            \A f \in DeclaredFiles :
                LET root == installTargets[t].app.path
                    entry == JoinPath(root, f.autoRegister.injectIn)
                    alias == f.autoRegister.importAs
                IN  (/\ f.autoRegister.present
                     /\ results[r].path = JoinPath(root, f.target)
                     /\ results[r].action # "created")
                    => ImportCount(fs', entry, alias) = ImportCount(fs, entry, alias)]_vars

\* The results of files whose template could not be read or fetched.
ReadFailures ==
    SelectSeq(results, LAMBDA r : r.action = "error" /\ r.error.kind = "readSource")

\* The install returned without an exception having ended it.
RanToTheEnd == Returned /\ Len(ret.errors) = Len(errors)

\* The number of files the file loop goes through for the selected targets.
FilesToInstall ==
    LET n == [t \in DOMAIN installTargets |->
                 Len(FilterFilesByTarget(Module.files, installTargets[t].types[1]))]
    IN  IF Len(installTargets) = 0 THEN 0
        ELSE IF Len(installTargets) = 1 THEN n[1]
        ELSE n[1] + n[2]

\* C26: a template that cannot be read or fetched does not end the install:
\* the failed file gets its result and the loop goes on; the message is in
\* the errors of the returned result, which has success false; and a run
\* that no exception ended has gone through all files, called the package
\* manager for every dependency, written the environment files, injected
\* the registrations and gone through the hooks.
C26_ReadFailureDoesNotEndInstall ==
    /\ (pc \in {"files", "deps", "env", "register", "hooks", "summary"})
       => \A k \in DOMAIN ReadFailures :
             /\ ~ret.returned
             /\ ReadFailures[k].error \in Range(errors)
    /\ (Returned /\ ReadFailures # <<>>)
       => /\ ~ret.success
          /\ \A k \in DOMAIN ReadFailures :
                ReadFailures[k].error \in Range(ret.errors)
    /\ (RanToTheEnd /\ ReadFailures # <<>>)
       => /\ Len(results) = FilesToInstall
          /\ InstallsDeps
             => Len(EffectsOfKind("exec")) = Len(Module.dependencies)
          /\ (Len(Module.envVariables) > 0 /\ Len(installTargets) > 0)
             => EffectsOfKind("envwrite") # <<>>
          /\ (\E f \in DeclaredFiles : f.autoRegister.present)
             => EffectsOfKind("inject") # <<>>
          /\ hi = Len(Module.hooks) + 1
          /\ (\E k \in DOMAIN Module.hooks :
                 Module.hooks[k].type = "log" /\ Module.hooks[k].hasMessage)
             => \E k \in DOMAIN effects :
                    effects[k].kind = "hook" /\ effects[k].arg[1] = "log"

\* C26 witness: the template of the first file could not be read, the second
\* file was created, and the package manager, the environment files, the
\* injection and the hooks followed.
C26_Witness ==
    /\ RanToTheEnd
    /\ Len(results) = 2
    /\ results[1].action = "error"
    /\ results[1].error.kind = "readSource"
    /\ results[2].action = "created"
    /\ ~ret.success
    /\ \A stage \in 2..5 :
          \E k \in DOMAIN effects : StageOf(effects[k].kind) = stage

----------------------------------------------------------------------------
(* More claims about checkDependencies                                     *)

\* C27: for a module of the registry, checkDependencies returns a non-empty
\* circular list exactly when a cycle of requires edges can be reached from
\* the module, whether the cycle passes through the module or not.
C27_CircularIffCycleReachable ==
    (Resolved /\ moduleName \in DOMAIN modules)
    => (circular # <<>> <=> ~AcyclicFrom(moduleName))

\* C27 witness: a reported cycle that does not pass through the start module
\* and whose entry is required twice.
C27_Witness ==
    /\ Resolved
    /\ moduleName \in DOMAIN modules
    /\ ~OnCycle(moduleName)
    /\ circular # <<>>
    /\ calls > Cardinality(visited) + Len(circular)

\* C28: checkDependencies called with a name that is no registry key returns
\* empty satisfied, missing and circular lists.
C28_AbsentStartReturnsEmptyLists ==
    (Resolved /\ moduleName \notin DOMAIN modules)
    => (satisfied = <<>> /\ missing = <<>> /\ circular = <<>>)

----------------------------------------------------------------------------
(* Claims about exceptions and about the first target                      *)

\* What the exceptions raised at a place of install report.
ExceptionKinds(place) ==
    CASE place = "getModule" -> {"noModule"}
      [] place = "targets" -> {"typeError"}
      [] place = "done" -> {"missingDeps", "circularDeps"}
      [] place = "files" -> {"mkdir", "write"}
      [] place = "env" -> {"write"}
      [] place = "register" -> {"inject"}
      [] OTHER -> {}

\* A step in which the running install ends.
InstallEnds == pc # "idle" /\ pc' = "idle"

\* C29: install always ends by returning a result; when an exception ended
\* it, the result has success false, the exception's message first in
\* errors, before the messages collected so far, and installedFiles lists
\* the files created before the exception, all of which are still there.
C29_ExceptionsBecomeResults ==
    [][InstallEnds
         => /\ ret'.returned
            /\ pc # "summary"
               => /\ ~ret'.success
                  /\ ret'.errors # <<>>
                  /\ ret'.errors[1].kind \in ExceptionKinds(pc)
                  /\ Tail(ret'.errors) = errors
                  /\ ret'.installedFiles = PathsCreated
                  /\ \A k \in DOMAIN PathsCreated :
                        /\ PathsCreated[k] \in DOMAIN fs'
                        /\ fs'[PathsCreated[k]].kind = "generated"]_vars

\* C29 witness: an exception of the injection ended an install that had
\* created one file and failed to read the template of another.
C29_Witness ==
    /\ Returned
    /\ Len(ret.errors) = 2
    /\ ret.errors[1].kind = "inject"
    /\ ret.errors[2].kind = "readSource"
    /\ Len(ret.installedFiles) = 1
    /\ ret.installedFiles[1] \in DOMAIN fs

\* The directory a package-manager call ran in.
ExecDir(e) == SubSeq(e.arg, 5, Len(e.arg))

\* The directory of a file.
InDir(path, dir) == dir = <<>> \/ StartsWith(path, dir \o <<"/">>)

\* C30: every package-manager call of an install runs in the directory of
\* its first target and every environment file it writes lies there, so
\* there is none of either without a target; once the file stage is over,
\* each further target has its files' results under its own directory and
\* has seen no package-manager call and no environment-file write.
C30_DepsAndEnvInFirstTargetOnly ==
    /\ \A k \in DOMAIN effects :
          /\ effects[k].kind = "exec"
             => /\ Len(installTargets) > 0
                /\ ExecDir(effects[k]) = installTargets[1].app.path
          /\ effects[k].kind = "envwrite"
             => /\ Len(installTargets) > 0
                /\ effects[k].arg \in
                     {JoinPath(installTargets[1].app.path, <<".env">>),
                      JoinPath(installTargets[1].app.path, <<".env.example">>)}
    /\ (pc \in {"deps", "env", "register", "hooks", "summary"})
       => \A t \in DOMAIN installTargets :
             t > 1
             => LET dir == installTargets[t].app.path
                IN  /\ \E r \in DOMAIN results : InDir(results[r].path, dir)
                    /\ \A k \in DOMAIN effects :
                          /\ effects[k].kind = "exec" => ExecDir(effects[k]) # dir
                          /\ effects[k].kind = "envwrite"
                             => ~InDir(effects[k].arg, dir)

\* C30 witness: an install with two targets that called the package manager
\* and wrote the environment files.
C30_Witness ==
    /\ Returned
    /\ Len(installTargets) = 2
    /\ installTargets[1].app.path # installTargets[2].app.path
    /\ EffectsOfKind("exec") # <<>>
    /\ EffectsOfKind("envwrite") # <<>>

\* An install of a module with dependencies and environment variables for
\* which no target was selected has come to its summary.
C30_NoTargetReached ==
    /\ pc = "summary"
    /\ installTargets = <<>>
    /\ ~skipDeps
    /\ Len(Module.dependencies) > 0
    /\ Len(Module.envVariables) > 0

====
